---- MODULE Spec2Model ----
\* A model of engine.py: the bout-resolution algorithm simulate_fight and its
\* helpers _pct, _sigmoid, _score_round, _result_tko and _result_ko.
\*
\* Floating-point quantities are fixed-point integers:
\*   ratios (_pct results) and random draws   hundredths      (1.0 = 100)
\*   damage and knockout thresholds           thousandths     (1.0 = 1000)
\*   fatigue and hit chance                    units of 1e-5   (1.0 = 100000)
\*   knockdown / knockout probabilities        units of 1e-7   (1.0 = 10000000)
\* Products are divided back with truncation, so a value can differ from the
\* float by less than one unit of its scale.
EXTENDS Integers, Sequences, FiniteSets, TLC

VARIABLES calls, prev, fn

vars == <<calls, prev, fn>>

\* ------------------------------------------------------------------ bounds
\* Length of the period of the modelled pseudo-random generator.
PatLen == 3
\* Largest round count a caller passes.
MaxRounds == 2
\* Largest landed-punch count and knockdown count handed to _score_round alone.
MaxLanded == 3
MaxKd == 4

\* ----------------------------------------------------------------- helpers
Max(x, y) == IF x >= y THEN x ELSE y
Min(x, y) == IF x <= y THEN x ELSE y

\* Python's int(): truncation towards zero of num/den (den > 0).
TruncDiv(num, den) == IF num >= 0 THEN num \div den ELSE -((-num) \div den)

\* Python's None, and the value of a local that is not bound yet.
None == [none |-> TRUE]

\* ------------------------------------------------------------ tuning knobs
TUNE ==
  [ KD_BASE |-> 4000, KD_POW |-> 10000, KD_STACK |-> 5000,          \* 1e-7
    KO_BASE |-> 200, KO_POW |-> 7000, KO_STACK |-> 4000,            \* 1e-7
    MIN_DAMAGE_FOR_KO |-> 110000,                                   \* 1e-3
    TKO_AFTER_KD_MULT |-> 9500,                                     \* 1e-4
    BETWEEN_ROUNDS_TKO_MULT_BASE |-> 9800,                          \* 1e-4
    BETWEEN_ROUNDS_TKO_MULT_JIT |-> 6,                              \* 1e-4 per hundredth of a draw
    KD_BONUS_MIN |-> 2000, KD_BONUS_PER_POW |-> 25,                 \* 1e-3, 1e-3 per hundredth of power
    EARLY_KO_REDUCER |-> <<35, 55, 75, 90, 100, 100, 100, 100, 100, 100, 100, 100>>,
    RECOVERY_BASE |-> 1500, RECOVERY_PER_STA |-> 35 ]               \* 1e-5, 1e-5 per hundredth of stamina

\* ---------------------------------------------------------- pure functions
\* A faulty variant of _pct below: the lower clamp is missing.
_pctNoFloor(x) == Min(100, x)

\* _pct(x) = max(0.0, min(1.0, x / 100.0)), in hundredths.
_pct(x) == Max(0, Min(100, x))

\* 1/(1+exp(-t)) at t = -3.00, -2.75, ..., 3.00, in units of 1e-5.
SigmoidTable ==
  << 4743, 6009, 7586, 9535, 11920, 14805, 18243, 22270, 26894, 32082, 37754,
     43782, 50000, 56218, 62246, 67918, 73106, 77730, 81757, 85195, 88080,
     90465, 92414, 93991, 95257 >>

\* _sigmoid(t), t and the result in units of 1e-5: the table, interpolated
\* linearly between its points and constant outside [-3, 3].
_sigmoid(t) ==
  IF t <= -300000 THEN SigmoidTable[1]
  ELSE IF t >= 300000 THEN SigmoidTable[25]
  ELSE LET k  == (t + 300000) \div 25000
           r  == (t + 300000) % 25000
           lo == SigmoidTable[k + 1]
           hi == SigmoidTable[k + 2]
       IN  lo + ((hi - lo) * r) \div 25000

\* The base score of _score_round (lines 71-77): margin in thousandths,
\* judge_bias in thousandths.
ScoreBase(landed_a, landed_b, judge_bias) ==
  LET margin == (landed_a - landed_b) * 1000 + judge_bias
  IN  IF margin > 500 THEN <<10, 9>>
      ELSE IF margin < -500 THEN <<9, 10>>
      ELSE <<10, 10>>

\* A faulty variant of the deduction below: the floor of 7 is missing.
KdDeductNoFloor(pts, kd) == pts - kd
\* b = max(7, b - kd): the knockdown deduction with its floor.
KdDeduct(pts, kd) == Max(7, pts - kd)

\* _score_round(landed_a, landed_b, kd_a, kd_b, judge_bias) -> <<a, b>>
_score_round(landed_a, landed_b, kd_a, kd_b, judge_bias) ==
  LET base == ScoreBase(landed_a, landed_b, judge_bias)
      a0 == base[1]
      b0 == base[2]
      b1 == IF kd_a >= 1 /\ a0 >= b0 THEN KdDeduct(b0, kd_a) ELSE b0
      a1 == IF kd_b >= 1 /\ b1 >= a0 THEN KdDeduct(a0, kd_b) ELSE a0
      b2 == IF kd_a >= 1 /\ b1 > a1 THEN Max(9, b1) ELSE b1
      a2 == IF kd_b >= 1 /\ a1 > b2 THEN Max(9, a1) ELSE a1
  IN  <<a2, b2>>

\* judge_bias = (rng.random() - 0.5) * 0.4, in thousandths, r in hundredths.
JudgeBias(r) == (r - 50) * 4

\* base_exchange = 48 + int(32 * (spd_a + spd_b) / 2)
BaseExchange(spd_a, spd_b) == 48 + TruncDiv(32 * (spd_a + spd_b), 200)

\* int(base_exchange * (0.50 + 0.5*spd) * (0.65 + 0.35*sta) * (1.0 - 0.35*fatigue))
AttemptsRaw(base_exchange, spd, sta, fatigue) ==
  LET prod == base_exchange * (100 + spd) * (6500 + 35 * sta)  \* units of 1/2000000
      f    == TruncDiv(10000000 - 35 * fatigue, 1000)          \* units of 1e-4
  IN  TruncDiv((prod \div 2000) * f, 10000000)

\* A faulty variant of the attempt count below: the floor of 10 is missing.
AttemptsNoFloor(base_exchange, spd, sta, fatigue) ==
  AttemptsRaw(base_exchange, spd, sta, fatigue)
\* attempts = max(10, int(...))
Attempts(base_exchange, spd, sta, fatigue) ==
  Max(10, AttemptsRaw(base_exchange, spd, sta, fatigue))

\* ko_threshold = 350.0 * (1.0 - dur) + 300.0, in thousandths.
KoThreshold(dur) == 3500 * (100 - dur) + 300000

\* hit_chance = clamp(_sigmoid(2.25 * ((acc - def) + 0.15*(sta - fat) - 0.10*fat_def)), 0.15, 0.75)
\* in units of 1e-5; acc, def, sta in hundredths, fatigues in units of 1e-5.
HitChance(acc, def, sta, fat, fat_def) ==
  LET x == (acc - def) * 1000 + (15 * (sta * 1000 - fat)) \div 100 - fat_def \div 10
  IN  Max(15000, Min(75000, _sigmoid((9 * x) \div 4)))

\* The damage of one landed punch (lines 154-156), in thousandths.
PunchDamage(pow, def, fat, r1, r2) ==
  LET core  == 3000 + (9 * pow * (6000 + 80 * r1)) \div 1000 - 20 * def
      fresh == 10000 + (15 * (100000 - fat)) \div 1000      \* units of 1e-4
      jit   == 950 + r2                                     \* units of 1e-3
  IN  Max(500, (((core * fresh) \div 10000) * jit) \div 1000)

\* A faulty variant of the accumulation below: = instead of +=.
AddDamageAssign(damage, dmg) == dmg
\* damage += dmg (lines 157, 197).
AddDamage(damage, dmg) == damage + dmg

\* kd_prob (lines 160-164), units of 1e-7; damage is the defender's, after the punch.
KdProb(pow, damage) ==
  TUNE.KD_BASE + (TUNE.KD_POW * pow) \div 100
    + ((TUNE.KD_STACK \div 1000) * Max(0, damage - 85000)) \div 85

\* A faulty variant of KdBonus below: the minimum bonus is left out.
KdBonusNoMin(pow) == TUNE.KD_BONUS_PER_POW * pow

\* KD bonus damage (line 169), thousandths.
KdBonus(pow) == TUNE.KD_BONUS_MIN + TUNE.KD_BONUS_PER_POW * pow

\* ko_prob (lines 178-183), units of 1e-7.
KoProb(pow, damage, rnd) ==
  LET early == TUNE.EARLY_KO_REDUCER[Min(rnd - 1, 11) + 1]
  IN  (early * (TUNE.KO_BASE + (TUNE.KO_POW * pow) \div 100
                + ((TUNE.KO_STACK \div 1000) * Max(0, damage - 120000)) \div 80)) \div 100

\* damage > ko_threshold * mult, mult in units of 1e-4 (thresholds are
\* multiples of 0.1, so the comparison is exact).
OverThreshold(damage, ko_threshold, mult) == damage * 100 > (ko_threshold \div 100) * mult

\* rng.random() < p for a draw r in hundredths and p in units of 1e-7.
DrawBelow(r, p) == r * 100000 < p

\* A faulty variant of the recovery below: the clamp at 0 is missing.
RecoverNoClamp(fatigue, sta) ==
  fatigue - (TUNE.RECOVERY_BASE + TUNE.RECOVERY_PER_STA * sta)
\* Between-round recovery (lines 264-267): fatigue = max(0.0, fatigue - rec).
Recover(fatigue, sta) ==
  Max(0, fatigue - (TUNE.RECOVERY_BASE + TUNE.RECOVERY_PER_STA * sta))

\* round(x, 2) of a damage (thousandths) and of a fatigue (1e-5), in hundredths.
Round2Damage(x) == (x + 5) \div 10
Round2Fatigue(x) == (x + 500) \div 1000

\* ------------------------------------------------- the random source
\* random.Random(seed) is a deterministic generator: its state is fixed by the
\* seed and every rng.random() advances it. It is modelled with period PatLen
\* over the draws 0.00, 0.10, 0.40, 0.99: seed n yields the draws given by the
\* base-4 digits of n, repeated.
DrawValues == <<0, 10, 40, 99>>

RECURSIVE PowN(_)
PowN(n) == IF n = 0 THEN 1 ELSE Len(DrawValues) * PowN(n - 1)

Seeds == 0 .. (PowN(PatLen) - 1)

\* What the environment seeds the generator with when seed is None.
Entropy == {0, PowN(PatLen) - 1}

\* An optional seed: <<>> is None, <<n>> is the integer n.
SeedArgs == {<<>>} \cup {<<n>> : n \in Seeds}

\* A faulty variant of the construction below: the seed is ignored and the
\* generator is always seeded from the environment.
RandomUnseeded(seed, entropy) == [n |-> entropy, pos |-> 0]
\* rng = random.Random(seed)  (line 101)
Random(seed, entropy) ==
  [n |-> IF seed = <<>> THEN entropy ELSE seed[1], pos |-> 0]

\* The k-th next value of rng.random() (k >= 1), in hundredths.
Draw(rng, k) ==
  DrawValues[((rng.n \div PowN((rng.pos + k - 1) % PatLen)) % Len(DrawValues)) + 1]

\* The generator after n calls of rng.random().
Skip(rng, n) == [rng EXCEPT !.pos = (@ + n) % PatLen]

\* --------------------------------------------------------------- fighters
Fighter(id, nm, spd, acc, pow, def, sta, dur) ==
  [boxer_id |-> id, name |-> nm, speed |-> spd, accuracy |-> acc,
   power |-> pow, defense |-> def, stamina |-> sta, durability |-> dur]

FighterX == Fighter(1, "X", 80, 70, 90, 40, 70, 30)
FighterY == Fighter(2, "Y", 40, 60, 30, 80, 60, 90)
FighterZero == Fighter(3, "Zero", 0, 0, 0, 0, 0, 0)
FighterWild == Fighter(4, "Wild", 150, 120, 130, -20, -5, 200)

Bouts == { <<FighterX, FighterY>>, <<FighterY, FighterX>>,
           <<FighterZero, FighterZero>>, <<FighterWild, FighterY>> }

RoundArgs == -1 .. MaxRounds

\* Normalised ratings (lines 104-109).
spd(f) == _pct(f.speed)
acc(f) == _pct(f.accuracy)
pow(f) == _pct(f.power)
def(f) == _pct(f.defense)
sta(f) == _pct(f.stamina)
dur(f) == _pct(f.durability)

Ident(f) == [boxer_id |-> f.boxer_id, name |-> f.name]

\* ------------------------------------------------------------ result builders
NoteKnockdown(f) == [note |-> "scores a knockdown!", name |-> f.name]
NoteKnockout(f)  == [note |-> "scores a knockout blow!", name |-> f.name]
NoteCorner(f)    == [note |-> "Corner stops it for", name |-> f.name]
NoteTko(f)       == [note |-> "Referee stops the fight. wins by TKO.", name |-> f.name]
NoteKo(f)        == [note |-> "wins by KO!", name |-> f.name]

\* The record _result_tko / _result_ko append to the play-by-play.
StoppageRecord(rnd, notes) == [round |-> rnd, stoppage |-> TRUE, notes |-> notes]

\* _result_tko(winner, loser, rnd, pbp, ..., notes, rng): the returned dict;
\* pbp is the play-by-play after the append.
_result_tko(winner, loser, rnd, pbp) ==
  [ result |-> [type |-> "TKO", round |-> rnd],
    winner |-> Ident(winner), loser |-> Ident(loser), play_by_play |-> pbp ]

\* A faulty variant of _result_ko below: the loser is filled in from the winner.
_result_koSameFighter(winner, loser, rnd, pbp) ==
  [ result |-> [type |-> "KO", round |-> rnd],
    winner |-> Ident(winner), loser |-> Ident(winner), play_by_play |-> pbp ]

\* _result_ko(winner, loser, rnd, pbp, ..., notes, rng)
_result_ko(winner, loser, rnd, pbp) ==
  [ result |-> [type |-> "KO", round |-> rnd],
    winner |-> Ident(winner), loser |-> Ident(loser), play_by_play |-> pbp ]

\* A faulty variant of the return below: the stoppage record is not appended.
ReturnTkoNoAppend(s, winner, loser, notes) ==
  [s EXCEPT !.pc = "done", !.ret = _result_tko(winner, loser, s.rnd, s.pbp)]
\* The state of a call that returns: pbp.append(...) and the return value.
ReturnTko(s, winner, loser, notes) ==
  LET pbp2 == Append(s.pbp, StoppageRecord(s.rnd, Append(notes, NoteTko(winner))))
  IN  [s EXCEPT !.pbp = pbp2, !.pc = "done",
                !.ret = _result_tko(winner, loser, s.rnd, pbp2)]

\* A faulty variant of ReturnKo below: the result is built but the call does
\* not return; the round loop goes on with the next round.
ReturnKoContinue(s, winner, loser, notes) ==
  LET pbp2 == Append(s.pbp, StoppageRecord(s.rnd, Append(notes, NoteKo(winner))))
  IN  [s EXCEPT !.pbp = pbp2, !.rnd = @ + 1, !.pc = "round",
                !.ret = _result_ko(winner, loser, s.rnd, pbp2)]

\* A faulty variant of ReturnKo below: winner and loser are passed in the
\* wrong order.
ReturnKoSwapped(s, winner, loser, notes) ==
  LET pbp2 == Append(s.pbp, StoppageRecord(s.rnd, Append(notes, NoteKo(winner))))
  IN  [s EXCEPT !.pbp = pbp2, !.pc = "done",
                !.ret = _result_ko(loser, winner, s.rnd, pbp2)]

\* The state of a call that returns a knockout.
ReturnKo(s, winner, loser, notes) ==
  LET pbp2 == Append(s.pbp, StoppageRecord(s.rnd, Append(notes, NoteKo(winner))))
  IN  [s EXCEPT !.pbp = pbp2, !.pc = "done",
                !.ret = _result_ko(winner, loser, s.rnd, pbp2)]

\* --------------------------------------------------------- simulate_fight
\* The locals of one call after lines 101-125, about to enter the round loop.
\* rnd is the round the loop runs next, i the index of the exchange loop, pc
\* the position: "round" (loop head), "exchange", "kd_check", "ko_check", "done".
Start(a, b, rounds, seed, entropy) ==
  [ a |-> a, b |-> b, rounds |-> rounds, seed |-> seed,
    rng |-> Random(seed, entropy),
    damage_a |-> 0, damage_b |-> 0, fatigue_a |-> 0, fatigue_b |-> 0,
    kd_total_a |-> 0, kd_total_b |-> 0,
    judges |-> <<<<0, 0>>, <<0, 0>>, <<0, 0>>>>, pbp |-> <<>>,
    ko_threshold_a |-> KoThreshold(dur(a)), ko_threshold_b |-> KoThreshold(dur(b)),
    rnd |-> 1, attempts_a |-> 0, attempts_b |-> 0, i |-> 0,
    landed_a |-> 0, landed_b |-> 0, kd_a |-> 0, kd_b |-> 0, notes |-> <<>>,
    attacker |-> "none", pc |-> "round", ret |-> None ]

\* A faulty variant of the loop bound below: one round too many.
LoopOffByOne(rnd, rounds) == rnd <= rounds + 1
\* for rnd in range(1, rounds + 1) (line 128): whether the loop runs round rnd.
LoopContinues(rnd, rounds) == rnd <= rounds

\* Lines 128-140: the head of one round.
RoundHead(s) ==
  LET base_exchange == BaseExchange(spd(s.a), spd(s.b))
  IN  [s EXCEPT !.attempts_a = Attempts(base_exchange, spd(s.a), sta(s.a), s.fatigue_a),
                !.attempts_b = Attempts(base_exchange, spd(s.b), sta(s.b), s.fatigue_b),
                !.landed_a = 0, !.landed_b = 0, !.kd_a = 0, !.kd_b = 0,
                !.notes = <<>>, !.i = 0, !.attacker = "none", !.pc = "exchange"]

\* rng.random() < a_att_prob (lines 142-146), terms in units of 1e-5. The 1e-9
\* of the denominator changes no comparison at this scale; with both terms 0
\* the probability is 0/1e-9 = 0 and no draw is below it.
AttackerIsA(s, r) ==
  LET ta == (spd(s.a) * (100000 - s.fatigue_a)) \div 100 + sta(s.a) * 500
      tb == (spd(s.b) * (100000 - s.fatigue_b)) \div 100 + sta(s.b) * 500
  IN  r * (ta + tb) < 100 * ta

\* Lines 141-157 and 188-197: attacker selection, hit or miss, damage.
ExchangeStep(s) ==
  IF AttackerIsA(s, Draw(s.rng, 1))
  THEN IF Draw(s.rng, 2) * 1000
            < HitChance(acc(s.a), def(s.b), sta(s.a), s.fatigue_a, s.fatigue_b)
       THEN [s EXCEPT !.landed_a = @ + 1,
                      !.damage_b = AddDamage(@, PunchDamage(pow(s.a), def(s.b), s.fatigue_a,
                                                            Draw(s.rng, 3), Draw(s.rng, 4))),
                      !.attacker = "a", !.pc = "kd_check", !.rng = Skip(@, 4)]
       ELSE [s EXCEPT !.i = @ + 1, !.rng = Skip(@, 2)]
  ELSE IF Draw(s.rng, 2) * 1000
            < HitChance(acc(s.b), def(s.a), sta(s.b), s.fatigue_b, s.fatigue_a)
       THEN [s EXCEPT !.landed_b = @ + 1,
                      !.damage_a = AddDamage(@, PunchDamage(pow(s.b), def(s.a), s.fatigue_b,
                                                            Draw(s.rng, 3), Draw(s.rng, 4))),
                      !.attacker = "b", !.pc = "kd_check", !.rng = Skip(@, 4)]
       ELSE [s EXCEPT !.i = @ + 1, !.rng = Skip(@, 2)]

\* Lines 159-174 and 199-213: the knockdown check after a landed punch.
KnockdownStep(s) ==
  IF s.attacker = "a"
  THEN IF DrawBelow(Draw(s.rng, 1), KdProb(pow(s.a), s.damage_b))
       THEN LET damage_b == s.damage_b + KdBonus(pow(s.a))
                notes    == Append(s.notes, NoteKnockdown(s.a))
                tko_mult == TUNE.TKO_AFTER_KD_MULT + 5 * Draw(s.rng, 2)
                t == [s EXCEPT !.kd_a = @ + 1, !.kd_total_b = @ + 1, !.notes = notes,
                               !.damage_b = damage_b, !.rng = Skip(@, 2)]
            IN  IF OverThreshold(damage_b, s.ko_threshold_b, tko_mult)
                THEN ReturnTko(t, s.a, s.b, notes)
                ELSE [t EXCEPT !.pc = "ko_check"]
       ELSE [s EXCEPT !.pc = "ko_check", !.rng = Skip(@, 1)]
  ELSE IF DrawBelow(Draw(s.rng, 1), KdProb(pow(s.b), s.damage_a))
       THEN LET damage_a == s.damage_a + KdBonus(pow(s.b))
                notes    == Append(s.notes, NoteKnockdown(s.b))
                tko_mult == TUNE.TKO_AFTER_KD_MULT + 5 * Draw(s.rng, 2)
                t == [s EXCEPT !.kd_b = @ + 1, !.kd_total_a = @ + 1, !.notes = notes,
                               !.damage_a = damage_a, !.rng = Skip(@, 2)]
            IN  IF OverThreshold(damage_a, s.ko_threshold_a, tko_mult)
                THEN ReturnTko(t, s.b, s.a, notes)
                ELSE [t EXCEPT !.pc = "ko_check"]
       ELSE [s EXCEPT !.pc = "ko_check", !.rng = Skip(@, 1)]

\* A faulty variant of KnockoutStep below: the damage gate is missing.
KnockoutStepUngated(s) ==
  IF s.attacker = "a"
  THEN IF DrawBelow(Draw(s.rng, 1), KoProb(pow(s.a), s.damage_b, s.rnd))
       THEN LET notes == Append(s.notes, NoteKnockout(s.a))
            IN  ReturnKo([s EXCEPT !.notes = notes, !.rng = Skip(@, 1)], s.a, s.b, notes)
       ELSE [s EXCEPT !.i = @ + 1, !.pc = "exchange", !.rng = Skip(@, 1)]
  ELSE IF DrawBelow(Draw(s.rng, 1), KoProb(pow(s.b), s.damage_a, s.rnd))
       THEN LET notes == Append(s.notes, NoteKnockout(s.b))
            IN  ReturnKo([s EXCEPT !.notes = notes, !.rng = Skip(@, 1)], s.b, s.a, notes)
       ELSE [s EXCEPT !.i = @ + 1, !.pc = "exchange", !.rng = Skip(@, 1)]

\* Lines 176-186 and 215-225: the one-punch knockout check, then the next exchange.
KnockoutStep(s) ==
  LET next == [s EXCEPT !.i = @ + 1, !.pc = "exchange"]
  IN  IF s.attacker = "a"
      THEN IF s.damage_b >= TUNE.MIN_DAMAGE_FOR_KO
           THEN IF DrawBelow(Draw(s.rng, 1), KoProb(pow(s.a), s.damage_b, s.rnd))
                THEN LET notes == Append(s.notes, NoteKnockout(s.a))
                     IN  ReturnKo([s EXCEPT !.notes = notes, !.rng = Skip(@, 1)],
                                  s.a, s.b, notes)
                ELSE [next EXCEPT !.rng = Skip(@, 1)]
           ELSE next
      ELSE IF s.damage_a >= TUNE.MIN_DAMAGE_FOR_KO
           THEN IF DrawBelow(Draw(s.rng, 1), KoProb(pow(s.b), s.damage_a, s.rnd))
                THEN LET notes == Append(s.notes, NoteKnockout(s.b))
                     IN  ReturnKo([s EXCEPT !.notes = notes, !.rng = Skip(@, 1)],
                                  s.b, s.a, notes)
                ELSE [next EXCEPT !.rng = Skip(@, 1)]
           ELSE next

\* A faulty variant of the scoring below: the totals are assigned, not added to.
ScoreJudgesAssign(judges, landed_a, landed_b, kd_a, kd_b, rng) ==
  [ j \in 1..3 |->
      _score_round(landed_a, landed_b, kd_a, kd_b, JudgeBias(Draw(rng, j))) ]
\* Lines 237-252: the three judges score the round, one draw of bias each.
ScoreJudges(judges, landed_a, landed_b, kd_a, kd_b, rng) ==
  [ j \in 1..3 |->
      LET pts == _score_round(landed_a, landed_b, kd_a, kd_b, JudgeBias(Draw(rng, j)))
      IN  <<judges[j][1] + pts[1], judges[j][2] + pts[2]>> ]

\* A faulty variant of RoundRecord below: the round index counts from 0.
RoundRecordZeroBased(s) ==
  [ round |-> s.rnd - 1, landed_a |-> s.landed_a, landed_b |-> s.landed_b,
    kd_a |-> s.kd_a, kd_b |-> s.kd_b, notes |-> s.notes ]

\* The record a completed round appends to the play-by-play (lines 254-261).
RoundRecord(s) ==
  [ round |-> s.rnd, landed_a |-> s.landed_a, landed_b |-> s.landed_b,
    kd_a |-> s.kd_a, kd_b |-> s.kd_b, notes |-> s.notes ]

\* A faulty variant of RoundEnd below: the corner stoppages name the stopped
\* fighter as the winner.
RoundEndSwapped(s) ==
  LET mult1 == TUNE.BETWEEN_ROUNDS_TKO_MULT_BASE
                 + TUNE.BETWEEN_ROUNDS_TKO_MULT_JIT * Draw(s.rng, 1)
      mult2 == TUNE.BETWEEN_ROUNDS_TKO_MULT_BASE
                 + TUNE.BETWEEN_ROUNDS_TKO_MULT_JIT * Draw(s.rng, 2)
  IN  IF OverThreshold(s.damage_a, s.ko_threshold_a, mult1)
      THEN LET notes == Append(s.notes, NoteCorner(s.a))
           IN  ReturnTko([s EXCEPT !.notes = notes, !.rng = Skip(@, 1)], s.a, s.b, notes)
      ELSE IF OverThreshold(s.damage_b, s.ko_threshold_b, mult2)
      THEN LET notes == Append(s.notes, NoteCorner(s.b))
           IN  ReturnTko([s EXCEPT !.notes = notes, !.rng = Skip(@, 2)], s.b, s.a, notes)
      ELSE [s EXCEPT !.judges = ScoreJudges(@, s.landed_a, s.landed_b, s.kd_a, s.kd_b,
                                            Skip(s.rng, 2)),
                     !.pbp = Append(@, RoundRecord(s)),
                     !.fatigue_a = Recover(@, sta(s.a)),
                     !.fatigue_b = Recover(@, sta(s.b)),
                     !.rng = Skip(@, 5), !.rnd = @ + 1, !.pc = "round"]

\* Lines 227-267: after the last exchange of a round, the between-round
\* stoppage checks, then scoring, the play-by-play record and recovery.
RoundEnd(s) ==
  LET mult1 == TUNE.BETWEEN_ROUNDS_TKO_MULT_BASE
                 + TUNE.BETWEEN_ROUNDS_TKO_MULT_JIT * Draw(s.rng, 1)
      mult2 == TUNE.BETWEEN_ROUNDS_TKO_MULT_BASE
                 + TUNE.BETWEEN_ROUNDS_TKO_MULT_JIT * Draw(s.rng, 2)
  IN  IF OverThreshold(s.damage_a, s.ko_threshold_a, mult1)
      THEN LET notes == Append(s.notes, NoteCorner(s.a))
           IN  ReturnTko([s EXCEPT !.notes = notes, !.rng = Skip(@, 1)], s.b, s.a, notes)
      ELSE IF OverThreshold(s.damage_b, s.ko_threshold_b, mult2)
      THEN LET notes == Append(s.notes, NoteCorner(s.b))
           IN  ReturnTko([s EXCEPT !.notes = notes, !.rng = Skip(@, 2)], s.a, s.b, notes)
      ELSE [s EXCEPT !.judges = ScoreJudges(@, s.landed_a, s.landed_b, s.kd_a, s.kd_b,
                                            Skip(s.rng, 2)),
                     !.pbp = Append(@, RoundRecord(s)),
                     !.fatigue_a = Recover(@, sta(s.a)),
                     !.fatigue_b = Recover(@, sta(s.b)),
                     !.rng = Skip(@, 5), !.rnd = @ + 1, !.pc = "round"]

\* f"{int(ja)}-{int(jb)}": the two totals joined by a hyphen.
Card(j) == <<j[1], "-", j[2]>>

\* The number of judges whose totals favour A (side 1) or B (side 2).
CardsFor(judges, side) ==
  Cardinality({j \in 1..3 : judges[j][side] > judges[j][3 - side]})

\* A faulty variant of Verdict below: the Split and Majority labels are swapped.
VerdictSwapped(a_cards, b_cards) ==
  IF a_cards > b_cards
  THEN IF a_cards = 3 THEN "Unanimous Decision"
       ELSE IF b_cards = 1 THEN "Majority Decision" ELSE "Split Decision"
  ELSE IF b_cards > a_cards
  THEN IF b_cards = 3 THEN "Unanimous Decision"
       ELSE IF a_cards = 1 THEN "Majority Decision" ELSE "Split Decision"
  ELSE "Draw"

\* Lines 280-291: the verdict label.
Verdict(a_cards, b_cards) ==
  IF a_cards > b_cards
  THEN IF a_cards = 3 THEN "Unanimous Decision"
       ELSE IF b_cards = 1 THEN "Split Decision" ELSE "Majority Decision"
  ELSE IF b_cards > a_cards
  THEN IF b_cards = 3 THEN "Unanimous Decision"
       ELSE IF a_cards = 1 THEN "Split Decision" ELSE "Majority Decision"
  ELSE "Draw"

\* Lines 269-306: the decision, once the round loop is exhausted.
DecisionResult(s) ==
  LET a_cards == CardsFor(s.judges, 1)
      b_cards == CardsFor(s.judges, 2)
  IN  [ result |-> [type |-> "Decision", verdict |-> Verdict(a_cards, b_cards),
                    cards |-> [j \in 1..3 |-> Card(s.judges[j])]],
        winner |-> IF a_cards > b_cards THEN Ident(s.a)
                   ELSE IF b_cards > a_cards THEN Ident(s.b) ELSE None,
        loser  |-> IF a_cards > b_cards THEN Ident(s.b)
                   ELSE IF b_cards > a_cards THEN Ident(s.a) ELSE None,
        totals |-> [ damage_to_a |-> Round2Damage(s.damage_a),
                     damage_to_b |-> Round2Damage(s.damage_b),
                     kd_suffered_a |-> s.kd_total_a, kd_suffered_b |-> s.kd_total_b,
                     fatigue_a |-> Round2Fatigue(s.fatigue_a),
                     fatigue_b |-> Round2Fatigue(s.fatigue_b) ],
        play_by_play |-> s.pbp ]

\* The state of a call that returns the decision.
DecisionStep(s) == [s EXCEPT !.pc = "done", !.ret = DecisionResult(s)]

\* ----------------------------------------------------------------- actions
\* calls maps each call of simulate_fight in progress to its locals; prev keeps
\* the final state of an earlier call with the same arguments; fn holds the
\* arguments and result of a helper evaluated on its own.
BeginRound(c) ==
  /\ calls[c].pc = "round"
  /\ LoopContinues(calls[c].rnd, calls[c].rounds)
  /\ calls' = [calls EXCEPT ![c] = RoundHead(@)]
  /\ UNCHANGED <<prev, fn>>

\* A faulty variant of Exchange below: the draws come from one generator shared
\* by all invocations, so an exchange of one call also moves the position of
\* the generator every other call reads.
ExchangeSharedRng(c) ==
  /\ calls[c].pc = "exchange"
  /\ calls[c].i < calls[c].attempts_a + calls[c].attempts_b
  /\ calls' = [k \in DOMAIN calls |->
                 IF k = c THEN ExchangeStep(calls[k])
                 ELSE [calls[k] EXCEPT !.rng = Skip(@, 1)]]
  /\ UNCHANGED <<prev, fn>>

Exchange(c) ==
  /\ calls[c].pc = "exchange"
  /\ calls[c].i < calls[c].attempts_a + calls[c].attempts_b
  /\ calls' = [calls EXCEPT ![c] = ExchangeStep(@)]
  /\ UNCHANGED <<prev, fn>>

KnockdownCheck(c) ==
  /\ calls[c].pc = "kd_check"
  /\ calls' = [calls EXCEPT ![c] = KnockdownStep(@)]
  /\ UNCHANGED <<prev, fn>>

KnockoutCheck(c) ==
  /\ calls[c].pc = "ko_check"
  /\ calls' = [calls EXCEPT ![c] = KnockoutStep(@)]
  /\ UNCHANGED <<prev, fn>>

EndRound(c) ==
  /\ calls[c].pc = "exchange"
  /\ calls[c].i >= calls[c].attempts_a + calls[c].attempts_b
  /\ calls' = [calls EXCEPT ![c] = RoundEnd(@)]
  /\ UNCHANGED <<prev, fn>>

Decision(c) ==
  /\ calls[c].pc = "round"
  /\ ~LoopContinues(calls[c].rnd, calls[c].rounds)
  /\ calls' = [calls EXCEPT ![c] = DecisionStep(@)]
  /\ UNCHANGED <<prev, fn>>

\* One call of simulate_fight(a, b, rounds, seed).
Init ==
  /\ \E bout \in Bouts, rounds \in RoundArgs, seed \in SeedArgs, entropy \in Entropy :
       calls = [c \in {1} |-> Start(bout[1], bout[2], rounds, seed, entropy)]
  /\ prev = None
  /\ fn = None

Next ==
  \/ \E c \in DOMAIN calls : BeginRound(c)
  \/ \E c \in DOMAIN calls : Exchange(c)
  \/ \E c \in DOMAIN calls : KnockdownCheck(c)
  \/ \E c \in DOMAIN calls : KnockoutCheck(c)
  \/ \E c \in DOMAIN calls : EndRound(c)
  \/ \E c \in DOMAIN calls : Decision(c)

Spec == Init /\ [][Next]_vars

\* A caller that invokes simulate_fight again with the same arguments once the
\* first call has returned (a fresh call: every local is rebuilt by Start; the
\* environment's entropy is whatever it is then).
Rerun(c) ==
  /\ calls[c].pc = "done"
  /\ prev = None
  /\ prev' = calls[c]
  /\ \E entropy \in Entropy :
       calls' = [calls EXCEPT ![c] = Start(@.a, @.b, @.rounds, @.seed, entropy)]
  /\ UNCHANGED fn

NextRerun ==
  \/ \E c \in DOMAIN calls : BeginRound(c)
  \/ \E c \in DOMAIN calls : Exchange(c)
  \/ \E c \in DOMAIN calls : KnockdownCheck(c)
  \/ \E c \in DOMAIN calls : KnockoutCheck(c)
  \/ \E c \in DOMAIN calls : EndRound(c)
  \/ \E c \in DOMAIN calls : Decision(c)
  \/ \E c \in DOMAIN calls : Rerun(c)

SpecRerun == Init /\ [][NextRerun]_vars

\* simulate_fight is sequential code that runs to its return.
FairSpec == Spec /\ WF_vars(Next)

\* ---------------------------------------------- helpers evaluated alone
\* _score_round on its own: every landed-punch pair, knockdown pair and bias draw.
BiasDraws == {0, 25, 50, 75, 99}

InitScore ==
  /\ calls = << >>
  /\ prev = None
  /\ fn \in [ landed_a : 0..MaxLanded, landed_b : 0..MaxLanded,
              kd_a : 0..MaxKd, kd_b : 0..MaxKd, r : BiasDraws,
              done : {FALSE}, base : {<<0, 0>>}, out : {<<0, 0>>} ]

EvalScoreRound ==
  /\ ~fn.done
  /\ fn' = [fn EXCEPT !.done = TRUE,
                      !.base = ScoreBase(fn.landed_a, fn.landed_b, JudgeBias(fn.r)),
                      !.out = _score_round(fn.landed_a, fn.landed_b, fn.kd_a, fn.kd_b,
                                           JudgeBias(fn.r))]
  /\ UNCHANGED <<calls, prev>>

SpecScore == InitScore /\ [][EvalScoreRound]_vars

\* The attempt counts of lines 130-132 on their own: raw attribute values in
\* and out of 0..100, and fatigue levels (units of 1e-5) from 0 up to 3.0. (In
\* a bout fatigue stays within the levels the round loop produces.)
AttrValues == {-50, 0, 50, 100, 150}
FatigueLevels == {0, 45000, 90000, 150000, 300000}

InitAttempts ==
  /\ calls = << >>
  /\ prev = None
  /\ fn \in [ spd_a : AttrValues, spd_b : AttrValues, sta_a : AttrValues, sta_b : AttrValues,
              fatigue_a : FatigueLevels, fatigue_b : FatigueLevels,
              done : {FALSE}, attempts_a : {0}, attempts_b : {0} ]

EvalAttempts ==
  /\ ~fn.done
  /\ LET base_exchange == BaseExchange(_pct(fn.spd_a), _pct(fn.spd_b))
     IN  fn' = [fn EXCEPT !.done = TRUE,
                  !.attempts_a = Attempts(base_exchange, _pct(fn.spd_a), _pct(fn.sta_a), fn.fatigue_a),
                  !.attempts_b = Attempts(base_exchange, _pct(fn.spd_b), _pct(fn.sta_b), fn.fatigue_b)]
  /\ UNCHANGED <<calls, prev>>

SpecAttempts == InitAttempts /\ [][EvalAttempts]_vars

\* _pct on its own: every integer attribute value from -50 to 150.
PctArgs == -50 .. 150

InitPct ==
  /\ calls = << >>
  /\ prev = None
  /\ fn \in [ x : PctArgs, done : {FALSE}, out : {0} ]

EvalPct ==
  /\ ~fn.done
  /\ fn' = [fn EXCEPT !.done = TRUE, !.out = _pct(fn.x)]
  /\ UNCHANGED <<calls, prev>>

SpecPct == InitPct /\ [][EvalPct]_vars

\* The decision step on its own: every triple of judge totals of a one-round
\* bout, each total from 8 to 10.
JudgeTotals == (8..10) \X (8..10)

\* A call at the end of its round loop with the given judge totals.
DecisionCall(judges) ==
  [Start(FighterX, FighterY, 1, <<0>>, 0) EXCEPT !.judges = judges, !.rnd = 2]

InitDecision ==
  /\ calls = << >>
  /\ prev = None
  /\ fn \in [ judges : [1..3 -> JudgeTotals], done : {FALSE}, ret : {None} ]

EvalDecision ==
  /\ ~fn.done
  /\ fn' = [fn EXCEPT !.done = TRUE, !.ret = DecisionResult(DecisionCall(fn.judges))]
  /\ UNCHANGED <<calls, prev>>

SpecDecision == InitDecision /\ [][EvalDecision]_vars

\* The knockout threshold on its own (lines 124-125): two durability values,
\* in range or not, normalised as simulate_fight normalises them.
DurArgs == {-50, 0, 10, 20, 30, 40, 50, 60, 70, 80, 90, 100, 150}

InitThreshold ==
  /\ calls = << >>
  /\ prev = None
  /\ fn \in [ d1 : DurArgs, d2 : DurArgs, done : {FALSE}, t1 : {0}, t2 : {0} ]

EvalThreshold ==
  /\ ~fn.done
  /\ fn' = [fn EXCEPT !.done = TRUE,
                      !.t1 = KoThreshold(_pct(fn.d1)),
                      !.t2 = KoThreshold(_pct(fn.d2))]
  /\ UNCHANGED <<calls, prev>>

SpecThreshold == InitThreshold /\ [][EvalThreshold]_vars

\* The one-punch knockout check on its own: a call that has just landed a
\* punch, with the defender's damage below, at and above MIN_DAMAGE_FOR_KO,
\* in either branch, in each round, for every generator.
KoDamages == {0, 50000, 109999, 110000, 110001, 200000, 400000}

KoCall(damage, attacker, rnd, seed) ==
  LET s == Start(FighterX, FighterY, MaxRounds, <<seed>>, 0)
  IN  IF attacker = "a"
      THEN [s EXCEPT !.damage_b = damage, !.landed_a = 1, !.attacker = "a",
                     !.rnd = rnd, !.pc = "ko_check"]
      ELSE [s EXCEPT !.damage_a = damage, !.landed_b = 1, !.attacker = "b",
                     !.rnd = rnd, !.pc = "ko_check"]

InitKo ==
  /\ calls = << >>
  /\ prev = None
  /\ fn \in [ damage : KoDamages, attacker : {"a", "b"}, rnd : 1..MaxRounds,
              seed : Seeds, done : {FALSE}, out : {None} ]

EvalKo ==
  /\ ~fn.done
  /\ fn' = [fn EXCEPT !.done = TRUE,
                      !.out = KnockoutStep(KoCall(fn.damage, fn.attacker, fn.rnd, fn.seed))]
  /\ UNCHANGED <<calls, prev>>

SpecKo == InitKo /\ [][EvalKo]_vars

\* ------------------------------------------- two invocations interleaved
\* The next step of a call, chosen by its position as the actions choose it.
StepOf(s) ==
  IF s.pc = "round"
  THEN IF LoopContinues(s.rnd, s.rounds) THEN RoundHead(s) ELSE DecisionStep(s)
  ELSE IF s.pc = "exchange"
  THEN IF s.i < s.attempts_a + s.attempts_b THEN ExchangeStep(s) ELSE RoundEnd(s)
  ELSE IF s.pc = "kd_check" THEN KnockdownStep(s)
  ELSE KnockoutStep(s)

\* A call run on its own from state s to its return.
RECURSIVE RunAlone(_)
RunAlone(s) == IF s.pc = "done" THEN s ELSE RunAlone(StepOf(s))

\* The arguments of the two invocations: one-round bouts, seeded or not.
PairArgs ==
  { <<FighterX, FighterY, 1, <<48>>>>, <<FighterY, FighterX, 1, <<>>>>,
    <<FighterZero, FighterZero, 1, <<7>>>> }

\* Two invocations of simulate_fight in progress at once (two requests served
\* by two threads); prev holds what each returns when it runs alone.
InitPair ==
  /\ \E x \in PairArgs, y \in PairArgs, entropy \in Entropy :
       /\ calls = [c \in {1, 2} |->
                     IF c = 1 THEN Start(x[1], x[2], x[3], x[4], entropy)
                     ELSE Start(y[1], y[2], y[3], y[4], entropy)]
       /\ prev = [c \in {1, 2} |-> RunAlone(calls[c])]
  /\ fn = None

\* Each step is a step of one of the two calls, in any order.
SpecPair == InitPair /\ [][Next]_vars

\* ------------------------------------------------------------------ claims
Kinds == {"Decision", "TKO", "KO"}
Returned(c) == calls[c].pc = "done"
Kind(c) == calls[c].ret.result.type

\* C1 (SpecRerun): determinism. When simulate_fight is called a second time
\* with the same fighters, round count and seed (not None), the second call
\* ends in the state the first call ended in: the same result record, the same
\* play-by-play of every round, the same damage, fatigue, knockdown and judge
\* totals, and the generator in the same position.
Determinism ==
  \A c \in DOMAIN calls :
    (prev # None /\ Returned(c) /\ calls[c].seed # <<>>) => calls[c] = prev

\* A seeded bout of at least two rounds has been run twice.
DeterminismWitness ==
  \E c \in DOMAIN calls :
    /\ prev # None /\ Returned(c) /\ calls[c].seed # <<>>
    /\ Len(calls[c].ret.play_by_play) >= 2

\* C2, as stated: for a bout the input contract admits (rounds >= 1), the
\* play-by-play is at most `rounds` long and is exactly `rounds` long if and
\* only if the outcome is a Decision.
RoundBound ==
  \A c \in DOMAIN calls :
    (Returned(c) /\ calls[c].rounds >= 1) =>
      /\ Len(calls[c].ret.play_by_play) <= calls[c].rounds
      /\ (Len(calls[c].ret.play_by_play) = calls[c].rounds) <=> (Kind(c) = "Decision")

\* C2, amended: the play-by-play is never longer than the configured round
\* count (than 0 for a count below 0); a Decision has exactly that length, and
\* a KO/TKO in round r has length r >= 1, which is the configured count when
\* the stoppage falls in the last round.
RoundBoundAmended ==
  \A c \in DOMAIN calls :
    /\ Len(calls[c].pbp) <= Max(calls[c].rounds, 0)
    /\ Returned(c) =>
         /\ Len(calls[c].ret.play_by_play) <= Max(calls[c].rounds, 0)
         /\ Kind(c) = "Decision" =>
              Len(calls[c].ret.play_by_play) = Max(calls[c].rounds, 0)
         /\ Kind(c) \in {"TKO", "KO"} =>
              /\ Len(calls[c].ret.play_by_play) = calls[c].ret.result.round
              /\ calls[c].ret.result.round >= 1

\* A stoppage in the last configured round: the play-by-play is `rounds` long
\* and the outcome is no Decision.
RoundBoundWitness ==
  \E c \in DOMAIN calls :
    /\ Returned(c) /\ Kind(c) \in {"TKO", "KO"}
    /\ calls[c].rounds = MaxRounds
    /\ Len(calls[c].ret.play_by_play) = calls[c].rounds

\* The loops stay within their bounds: at most `rounds` rounds are begun and
\* at most attempts_a + attempts_b exchanges are run in a round.
LoopsBounded ==
  \A c \in DOMAIN calls :
    calls[c].rounds >= 1 =>
      /\ calls[c].rnd <= calls[c].rounds + 1
      /\ Len(calls[c].pbp) <= calls[c].rounds
      /\ calls[c].i <= calls[c].attempts_a + calls[c].attempts_b

\* C3 (FairSpec): termination. For rounds >= 1 and every modelled sequence of
\* draws the loops stay within their bounds and the call eventually returns,
\* with one of the three outcome kinds.
Termination ==
  /\ [] LoopsBounded
  /\ <> (\A c \in DOMAIN calls :
           calls[c].rounds >= 1 => (Returned(c) /\ Kind(c) \in Kinds))

\* A bout of the largest round count that has gone the distance and returned.
TerminationWitness ==
  \E c \in DOMAIN calls :
    /\ Returned(c) /\ calls[c].rounds = MaxRounds /\ Kind(c) = "Decision"
    /\ calls[c].i = calls[c].attempts_a + calls[c].attempts_b

\* C4, as stated: a call with rounds <= 0 never enters the round loop and does
\* not return a Decision/TKO/KO result record.
InvalidRoundsRejected ==
  \A c \in DOMAIN calls :
    calls[c].rounds <= 0 =>
      /\ calls[c].pc \notin {"exchange", "kd_check", "ko_check"}
      /\ ~(Returned(c) /\ Kind(c) \in Kinds)

\* C5, as stated: for rounds >= 1, a Decision carries exactly 3 cards "A-B"
\* and each of the two integers lies in [7, 10].
ScorecardShape ==
  \A c \in DOMAIN calls :
    (Returned(c) /\ Kind(c) = "Decision" /\ calls[c].rounds >= 1) =>
      LET cards == calls[c].ret.result.cards
      IN  /\ DOMAIN cards = 1..3
          /\ \A j \in 1..3 :
               /\ cards[j][2] = "-"
               /\ cards[j][1] \in 7..10 /\ cards[j][3] \in 7..10

\* C5, amended: a Decision carries exactly 3 cards "A-B"; the integers are the
\* judges' totals over the n rounds scored (n = play-by-play length), so each
\* lies in [7n, 10n], which is [7, 10] for a one-round bout only.
ScorecardTotals ==
  \A c \in DOMAIN calls :
    (Returned(c) /\ Kind(c) = "Decision") =>
      LET cards == calls[c].ret.result.cards
          n == Len(calls[c].ret.play_by_play)
      IN  /\ DOMAIN cards = 1..3
          /\ \A j \in 1..3 :
               /\ Len(cards[j]) = 3 /\ cards[j][2] = "-"
               /\ cards[j][1] \in (7 * n)..(10 * n)
               /\ cards[j][3] \in (7 * n)..(10 * n)

\* A Decision after more than one round, with a total above 10 on a card.
ScorecardTotalsWitness ==
  \E c \in DOMAIN calls :
    /\ Returned(c) /\ Kind(c) = "Decision"
    /\ Len(calls[c].ret.play_by_play) >= 2
    /\ \E j \in 1..3 : calls[c].ret.result.cards[j][1] > 10

\* C6 (SpecScore), as stated: in a round where a fighter scored k >= 1
\* knockdowns, _score_round gives the opponent at most max(7, 10 - k).
KnockdownScoringFloor ==
  fn.done =>
    /\ fn.kd_a >= 1 => fn.out[2] <= Max(7, 10 - fn.kd_a)
    /\ fn.kd_b >= 1 => fn.out[1] <= Max(7, 10 - fn.kd_b)

\* C7: each fighter's fatigue lies in [0, 0.9] in every state of a bout, and
\* so do the fatigue totals of the result.
FatigueBound ==
  \A c \in DOMAIN calls :
    /\ calls[c].fatigue_a \in 0..90000
    /\ calls[c].fatigue_b \in 0..90000
    /\ (Returned(c) /\ Kind(c) = "Decision") =>
         /\ calls[c].ret.totals.fatigue_a \in 0..90
         /\ calls[c].ret.totals.fatigue_b \in 0..90

\* The between-round recovery has been applied and the bout went on to a
\* decision that reports the fatigue totals.
FatigueBoundWitness ==
  \E c \in DOMAIN calls :
    /\ Returned(c) /\ Kind(c) = "Decision"
    /\ Len(calls[c].pbp) >= 2
    /\ calls[c].landed_a + calls[c].landed_b >= 1

\* C8: while the bout is in progress no step lowers a fighter's cumulative
\* damage, and a step that lands a punch raises the defender's damage by at
\* least 0.5.
DamageMonotone ==
  [][ \A c \in DOMAIN calls :
        calls[c].pc # "done" =>
          /\ calls'[c].damage_a >= calls[c].damage_a
          /\ calls'[c].damage_b >= calls[c].damage_b
          /\ calls'[c].landed_a = calls[c].landed_a + 1 =>
               calls'[c].damage_b >= calls[c].damage_b + 500
          /\ calls'[c].landed_b = calls[c].landed_b + 1 =>
               calls'[c].damage_a >= calls[c].damage_a + 500 ]_vars

\* Both fighters have landed punches, a knockdown bonus has been added and a
\* round change has happened.
DamageMonotoneWitness ==
  \E c \in DOMAIN calls :
    /\ calls[c].rnd >= 2 /\ calls[c].pc # "done"
    /\ calls[c].landed_a >= 1 /\ calls[c].landed_b >= 1
    /\ calls[c].kd_total_a + calls[c].kd_total_b >= 1
    /\ calls[c].damage_a > 0 /\ calls[c].damage_b > 0

\* C9 (SpecAttempts): for every combination of attribute values, in range or
\* not, and every fatigue level, attempts_a >= 10 and attempts_b >= 10.
AttemptFloor ==
  fn.done => (fn.attempts_a >= 10 /\ fn.attempts_b >= 10)

\* The floor decides: the computed product is below 10 and the count is 10.
AttemptFloorWitness ==
  /\ fn.done
  /\ fn.attempts_a = 10
  /\ AttemptsRaw(BaseExchange(_pct(fn.spd_a), _pct(fn.spd_b)),
                 _pct(fn.spd_a), _pct(fn.sta_a), fn.fatigue_a) < 10

\* C10 (SpecScore): for every landed-punch pair, knockdown pair and bias the
\* engine draws, the score before the knockdown adjustment is 10-9, 9-10 or
\* 10-10, and after it both scores lie in [7, 10].
JudgeScoreRange ==
  fn.done =>
    /\ fn.base \in {<<10, 9>>, <<9, 10>>, <<10, 10>>}
    /\ fn.out[1] \in 7..10
    /\ fn.out[2] \in 7..10

\* Three or more knockdowns against a fighter who lost the round on punches:
\* the deduction stops at the floor of 7.
JudgeScoreRangeWitness ==
  /\ fn.done
  /\ fn.kd_a >= 3 /\ fn.base = <<10, 9>>
  /\ fn.out = <<10, 7>>

\* C11 (Spec): in every result record winner and loser are both None or both
\* set; they are both None exactly when the result is a Decision with the
\* verdict Draw; when set, one is the identity of fighter a and the other the
\* identity of fighter b.
WinnerLoserNullability ==
  \A c \in DOMAIN calls :
    Returned(c) =>
      LET ret == calls[c].ret
          isDraw == ret.result.type = "Decision" /\ ret.result.verdict = "Draw"
      IN  /\ (ret.winner = None) <=> (ret.loser = None)
          /\ (ret.winner = None) <=> isDraw
          /\ ret.winner # None =>
                \/ ret.winner = Ident(calls[c].a) /\ ret.loser = Ident(calls[c].b)
                \/ ret.winner = Ident(calls[c].b) /\ ret.loser = Ident(calls[c].a)

\* A knockout between two different fighters: winner and loser are both set,
\* the first fighter won and the second lost.
WinnerLoserNullabilityWitness ==
  \E c \in DOMAIN calls :
    /\ Returned(c) /\ Kind(c) = "KO"
    /\ Ident(calls[c].a) # Ident(calls[c].b)
    /\ calls[c].ret.winner = Ident(calls[c].a)
    /\ calls[c].ret.loser = Ident(calls[c].b)

\* A bout of at least one round scored a Draw: winner and loser are both None.
DrawHasNoWinner ==
  \E c \in DOMAIN calls :
    /\ Returned(c) /\ Kind(c) = "Decision" /\ calls[c].rounds >= 1
    /\ calls[c].ret.result.verdict = "Draw"
    /\ calls[c].ret.winner = None /\ calls[c].ret.loser = None

\* C12 (Spec): every result record, whether its kind is Decision, TKO or KO,
\* contains the totals block with the final damage, the knockdowns suffered
\* and the fatigue of both fighters.
TotalsInEveryResult ==
  \A c \in DOMAIN calls :
    Returned(c) =>
      /\ "totals" \in DOMAIN calls[c].ret
      /\ DOMAIN calls[c].ret.totals =
           {"damage_to_a", "damage_to_b", "kd_suffered_a", "kd_suffered_b",
            "fatigue_a", "fatigue_b"}

\* Both fighters of the call have zero speed and zero stamina.
Degenerate(c) ==
  /\ spd(calls[c].a) = 0 /\ sta(calls[c].a) = 0
  /\ spd(calls[c].b) = 0 /\ sta(calls[c].b) = 0

\* The draws of rng.random(), in hundredths, for which fighter a attacks.
DrawsSelectingA(c) == {r \in 0..99 : AttackerIsA(calls[c], r)}

\* C13 (Spec): when both fighters have zero speed and zero stamina, at every
\* exchange the probability that fighter a attacks is near 1/2 (between 0.4
\* and 0.6 of the draws select a), so some draw selects a and some draw
\* selects b.
DegenerateNearEven ==
  \A c \in DOMAIN calls :
    (Degenerate(c) /\ calls[c].pc = "exchange") =>
      /\ Cardinality(DrawsSelectingA(c)) \in 40..60
      /\ DrawsSelectingA(c) # {}
      /\ DrawsSelectingA(c) # 0..99

\* What the code does instead: in a degenerate bout no draw selects fighter a,
\* who never attacks and never lands a punch.
DegenerateOnlyB ==
  \A c \in DOMAIN calls :
    Degenerate(c) =>
      /\ DrawsSelectingA(c) = {}
      /\ calls[c].attacker # "a"
      /\ calls[c].landed_a = 0

\* The rounds a returned call has started: the round of the stoppage, or every
\* configured round when the bout went to the decision.
RoundsStarted(c) ==
  IF Kind(c) \in {"TKO", "KO"} THEN calls[c].rnd ELSE calls[c].rnd - 1

\* C14 (Spec): the play-by-play holds one record per round started, with the
\* round indices 1, 2, ..., n in order, and only the last record can carry the
\* stoppage flag; a KO/TKO result carries it on the last record, its round
\* field equals n and 1 <= round <= rounds; with rounds = 1 the play-by-play
\* of the result has length 1 whatever the outcome.
PlayByPlayShape ==
  \A c \in DOMAIN calls :
    /\ \A k \in 1..Len(calls[c].pbp) :
          /\ calls[c].pbp[k].round = k
          /\ "stoppage" \in DOMAIN calls[c].pbp[k] =>
                (k = Len(calls[c].pbp) /\ Returned(c) /\ Kind(c) \in {"TKO", "KO"})
    /\ Returned(c) =>
          /\ calls[c].ret.play_by_play = calls[c].pbp
          /\ Len(calls[c].pbp) = RoundsStarted(c)
          /\ Kind(c) \in {"TKO", "KO"} =>
                /\ calls[c].ret.result.round = Len(calls[c].pbp)
                /\ calls[c].ret.result.round \in 1..calls[c].rounds
                /\ "stoppage" \in DOMAIN calls[c].pbp[Len(calls[c].pbp)]
          /\ calls[c].rounds = 1 => Len(calls[c].ret.play_by_play) = 1

\* A stoppage in the second round: the first record is an ordinary round
\* record and the second, last one is the stoppage record.
PlayByPlayShapeWitness ==
  \E c \in DOMAIN calls :
    /\ Returned(c) /\ Kind(c) \in {"TKO", "KO"}
    /\ calls[c].ret.result.round = 2
    /\ Len(calls[c].ret.play_by_play) = 2
    /\ "stoppage" \notin DOMAIN calls[c].ret.play_by_play[1]
    /\ "stoppage" \in DOMAIN calls[c].ret.play_by_play[2]

\* C15 (SpecPct): for every integer attribute value, negative values and
\* values above 100 included, _pct returns the value over 100 clamped to
\* [0, 1] (in hundredths: 0 below 0, 100 above 100, the value itself in
\* between), so the ratio lies in [0, 1] and every input has a result.
PctClamps ==
  fn.done =>
    /\ fn.out \in 0..100
    /\ fn.x < 0 => fn.out = 0
    /\ fn.x > 100 => fn.out = 100
    /\ fn.x \in 0..100 => fn.out = fn.x

\* A negative attribute value has been normalised to 0.
PctClampsWitness ==
  fn.done /\ fn.x < 0 /\ fn.out = 0

\* The same in a bout (Spec): the six ratios of each fighter the bout uses lie
\* in [0, 1], also for a fighter whose attributes are out of range.
RatiosInRange ==
  \A c \in DOMAIN calls : \A f \in {calls[c].a, calls[c].b} :
    /\ spd(f) \in 0..100 /\ acc(f) \in 0..100 /\ pow(f) \in 0..100
    /\ def(f) \in 0..100 /\ sta(f) \in 0..100 /\ dur(f) \in 0..100

\* C16 (SpecPair): when two invocations of simulate_fight are interleaved step
\* by step in any order, each returns the result, and ends in the state of
\* its locals, that it returns and ends in when it runs alone.
InvocationsIndependent ==
  \A c \in DOMAIN calls :
    Returned(c) =>
      /\ calls[c].ret = prev[c].ret
      /\ calls[c] = prev[c]

\* Two invocations with different arguments have both returned, with different
\* results.
InvocationsIndependentWitness ==
  /\ DOMAIN calls = {1, 2}
  /\ Returned(1) /\ Returned(2)
  /\ calls[1].a # calls[2].a
  /\ calls[1].ret # calls[2].ret

\* C17 (SpecScore): for every judge, a fighter who scored at least one
\* knockdown in a round in which the opponent scored none is never given
\* fewer points than the opponent, even when the opponent landed more punches.
KnockdownScorerNeverLoses ==
  fn.done =>
    /\ (fn.kd_a >= 1 /\ fn.kd_b = 0) => fn.out[1] >= fn.out[2]
    /\ (fn.kd_b >= 1 /\ fn.kd_a = 0) => fn.out[2] >= fn.out[1]

\* The scores _score_round can give one round over every bias the engine can
\* draw (rng.random() in hundredths).
RoundScores(landed_a, landed_b, kd_a, kd_b) ==
  { _score_round(landed_a, landed_b, kd_a, kd_b, JudgeBias(r)) : r \in 0..99 }

\* C18 (SpecScore): the per-judge bias can make two judges score the same
\* round differently: there is a round (landed punches and knockdowns of both
\* fighters) for which two biases the engine can draw give different scores.
\* Stated where a judge has scored a round; the rounds ranged over are all the
\* rounds of the specification, not only the one just scored.
JudgesCanDiffer ==
  fn.done =>
    \E landed_a \in 0..MaxLanded, landed_b \in 0..MaxLanded,
       kd_a \in 0..MaxKd, kd_b \in 0..MaxKd :
      Cardinality(RoundScores(landed_a, landed_b, kd_a, kd_b)) > 1

\* What the code does instead (Spec): the three judges' running totals are
\* equal in every state of a bout, so a decision is Unanimous or a Draw.
JudgesAlwaysAgree ==
  \A c \in DOMAIN calls :
    /\ calls[c].judges[1] = calls[c].judges[2]
    /\ calls[c].judges[2] = calls[c].judges[3]
    /\ (Returned(c) /\ Kind(c) = "Decision") =>
         calls[c].ret.result.verdict \in {"Unanimous Decision", "Draw"}

\* The judges of the triple whose totals favour fighter a, and fighter b.
FavourA == {j \in 1..3 : fn.judges[j][1] > fn.judges[j][2]}
FavourB == {j \in 1..3 : fn.judges[j][2] > fn.judges[j][1]}

\* C19 (SpecDecision): for every triple of judge totals, the verdict is
\* Unanimous Decision exactly when all three judges favour the same fighter,
\* Split Decision exactly when one fighter has two cards and the other exactly
\* one, and Draw when all three judges have tied totals.
VerdictClassification ==
  fn.done =>
    LET na == Cardinality(FavourA)
        nb == Cardinality(FavourB)
        verdict == fn.ret.result.verdict
    IN  /\ (verdict = "Unanimous Decision") <=> (na = 3 \/ nb = 3)
        /\ (verdict = "Split Decision") <=> ((na = 2 /\ nb = 1) \/ (nb = 2 /\ na = 1))
        /\ (na = 0 /\ nb = 0) => verdict = "Draw"

\* Two judges for fighter b and one for fighter a: a Split Decision for b.
VerdictClassificationWitness ==
  /\ fn.done
  /\ Cardinality(FavourB) = 2 /\ Cardinality(FavourA) = 1
  /\ fn.ret.result.verdict = "Split Decision"
  /\ fn.ret.winner = Ident(FighterY)

LastRecord(c) == calls[c].ret.play_by_play[Len(calls[c].ret.play_by_play)]

\* C21 (Spec): on every KO or TKO the last record of the play-by-play is a
\* rescored record of the interrupted round: it carries that round's landed
\* counts and knockdowns, and the three judges have scored the round, so each
\* judge's totals cover as many rounds as the play-by-play has records.
InterruptedRoundJudged ==
  \A c \in DOMAIN calls :
    (Returned(c) /\ Kind(c) \in {"TKO", "KO"}) =>
      /\ {"landed_a", "landed_b", "kd_a", "kd_b"} \subseteq DOMAIN LastRecord(c)
      /\ LastRecord(c).landed_a = calls[c].landed_a
      /\ LastRecord(c).landed_b = calls[c].landed_b
      /\ LastRecord(c).kd_a = calls[c].kd_a
      /\ LastRecord(c).kd_b = calls[c].kd_b
      /\ \A j \in 1..3 :
            /\ calls[c].judges[j][1] >= 7 * Len(calls[c].ret.play_by_play)
            /\ calls[c].judges[j][2] >= 7 * Len(calls[c].ret.play_by_play)

\* What the code does instead: the stoppage record holds the round, the flag
\* and the notes only, and the judges' totals cover the completed rounds only.
StoppageRecordBare ==
  \A c \in DOMAIN calls :
    (Returned(c) /\ Kind(c) \in {"TKO", "KO"}) =>
      /\ DOMAIN LastRecord(c) = {"round", "stoppage", "notes"}
      /\ \A j \in 1..3 :
            calls[c].judges[j][1] <= 10 * (Len(calls[c].ret.play_by_play) - 1)

\* C22 (SpecThreshold): for any two durability values d1 < d2 the knockout
\* threshold computed for d2 is greater than or equal to the one computed for
\* d1.
ThresholdRisesWithDurability ==
  (fn.done /\ fn.d1 < fn.d2) => fn.t2 >= fn.t1

\* What the code does instead: the threshold never rises with durability, and
\* falls by 3.5 for each hundredth of durability in range.
ThresholdFallsWithDurability ==
  (fn.done /\ fn.d1 < fn.d2) =>
    /\ fn.t2 <= fn.t1
    /\ (fn.d1 \in 0..100 /\ fn.d2 \in 0..100) => fn.t1 - fn.t2 = 3500 * (fn.d2 - fn.d1)

\* damage exceeds ko_threshold times some multiplier base + jit * r, r a draw in
\* hundredths (multipliers in units of 1e-4).
ExceedsBand(damage, ko_threshold, base, jit) ==
  \E r \in 0..99 : damage * 100 > (ko_threshold \div 100) * (base + jit * r)

\* C23 (Spec): a call returns a TKO only (a) from the knockdown check, on a
\* knockdown, when the damage of the fighter knocked down exceeds their
\* threshold times a multiplier in [0.95, 1.00), or (b) after the last
\* exchange of a round, when a fighter's damage exceeds their threshold times
\* a multiplier in [0.98, 1.04); the fighter whose damage exceeded the bound
\* is the loser and the other fighter the winner.
TkoCondition ==
  [][ \A c \in DOMAIN calls :
        ( /\ calls[c].pc # "done" /\ calls'[c].pc = "done"
          /\ calls'[c].ret.result.type = "TKO" ) =>
          LET s == calls[c]
              t == calls'[c]
              aLoses == t.ret.loser = Ident(s.a) /\ t.ret.winner = Ident(s.b)
              bLoses == t.ret.loser = Ident(s.b) /\ t.ret.winner = Ident(s.a)
          IN  \/ /\ s.pc = "kd_check"
                 /\ \/ /\ t.kd_total_a = s.kd_total_a + 1
                       /\ ExceedsBand(t.damage_a, s.ko_threshold_a, 9500, 5)
                       /\ aLoses
                    \/ /\ t.kd_total_b = s.kd_total_b + 1
                       /\ ExceedsBand(t.damage_b, s.ko_threshold_b, 9500, 5)
                       /\ bLoses
              \/ /\ s.pc = "exchange" /\ s.i = s.attempts_a + s.attempts_b
                 /\ \/ ExceedsBand(t.damage_a, s.ko_threshold_a, 9800, 6) /\ aLoses
                    \/ ExceedsBand(t.damage_b, s.ko_threshold_b, 9800, 6) /\ bLoses ]_vars

\* A TKO right after a knockdown between two different fighters: the last
\* note of the round is the knockdown and the fighter knocked down lost.
TkoConditionWitness ==
  \E c \in DOMAIN calls :
    /\ Returned(c) /\ Kind(c) = "TKO"
    /\ Ident(calls[c].a) # Ident(calls[c].b)
    /\ calls[c].notes # <<>>
    /\ calls[c].notes[Len(calls[c].notes)] = NoteKnockdown(calls[c].a)
    /\ calls[c].ret.loser = Ident(calls[c].b)

\* A TKO between rounds: the corner of the stopped fighter ends the bout.
CornerStoppageReached ==
  \E c \in DOMAIN calls :
    /\ Returned(c) /\ Kind(c) = "TKO"
    /\ calls[c].notes[Len(calls[c].notes)] = NoteCorner(calls[c].b)
    /\ calls[c].ret.loser = Ident(calls[c].b)

\* The knockout check was evaluated: it drew from the generator.
KoEvaluated == fn.out.rng # KoCall(fn.damage, fn.attacker, fn.rnd, fn.seed).rng
\* The check produced a KO result.
KoProduced == fn.out.pc = "done" /\ fn.out.ret.result.type = "KO"

\* C24 (SpecKo), as stated: the knockout check is evaluated only when the
\* defender's damage exceeds MIN_DAMAGE_FOR_KO, and no KO is produced while
\* the loser's damage is at or below it.
KoGateStrict ==
  fn.done =>
    /\ KoEvaluated => fn.damage > TUNE.MIN_DAMAGE_FOR_KO
    /\ KoProduced => fn.damage > TUNE.MIN_DAMAGE_FOR_KO

\* C24, amended: the knockout check is evaluated exactly when the defender's
\* damage is at least MIN_DAMAGE_FOR_KO, so no KO is produced while the
\* loser's damage is below it; the loser of a KO is the defender.
KoGate ==
  fn.done =>
    /\ KoEvaluated <=> fn.damage >= TUNE.MIN_DAMAGE_FOR_KO
    /\ KoProduced => fn.damage >= TUNE.MIN_DAMAGE_FOR_KO
    /\ KoProduced =>
         fn.out.ret.loser = Ident(IF fn.attacker = "a" THEN FighterY ELSE FighterX)
    /\ ~KoProduced => (fn.out.pc = "exchange" /\ fn.out.i = 1)

\* A KO with the loser's damage exactly at the minimum.
KoGateWitness ==
  fn.done /\ fn.damage = TUNE.MIN_DAMAGE_FOR_KO /\ KoProduced

\* The same in a bout (Spec): the defender of the last exchange of every KO
\* has at least the minimum.
KoGateInBout ==
  \A c \in DOMAIN calls :
    (Returned(c) /\ Kind(c) = "KO") =>
      /\ calls[c].attacker = "b" => calls[c].damage_a >= TUNE.MIN_DAMAGE_FOR_KO
      /\ calls[c].attacker = "a" => calls[c].damage_b >= TUNE.MIN_DAMAGE_FOR_KO

\* C25 (Spec): fatigue accrues as rounds are fought: when the last exchange of
\* a round has been fought, before the recovery between rounds, the fatigue
\* of at least one fighter is above its initial 0.
FatigueAccrues ==
  \A c \in DOMAIN calls :
    ( /\ calls[c].pc = "exchange"
      /\ calls[c].i = calls[c].attempts_a + calls[c].attempts_b ) =>
      (calls[c].fatigue_a > 0 \/ calls[c].fatigue_b > 0)

\* What the code does instead: the fatigue of both fighters is 0 in every
\* state, and so are the fatigue totals of a decision.
FatigueAlwaysZero ==
  \A c \in DOMAIN calls :
    /\ calls[c].fatigue_a = 0 /\ calls[c].fatigue_b = 0
    /\ (Returned(c) /\ Kind(c) = "Decision") =>
         (calls[c].ret.totals.fatigue_a = 0 /\ calls[c].ret.totals.fatigue_b = 0)

\* C26 (SpecPair): a step that builds a result makes the call terminal at
\* once, and a terminal call never changes again: no exchange, no round, no
\* judge total, damage, fatigue or knockdown counter, and its position never
\* leaves "done", whatever the other invocation does meanwhile.
TerminalAbsorbing ==
  [][ \A c \in DOMAIN calls :
        /\ calls'[c].ret # None => calls'[c].pc = "done"
        /\ (calls[c].pc = "done" \/ calls[c].ret # None) => calls'[c] = calls[c] ]_vars

\* One invocation has ended in a KO or TKO while the other is still fighting
\* its exchanges.
TerminalAbsorbingWitness ==
  /\ DOMAIN calls = {1, 2}
  /\ Returned(1) /\ Kind(1) \in {"TKO", "KO"}
  /\ calls[2].pc \in {"exchange", "kd_check", "ko_check"}
  /\ calls[2].i >= 1

\* The knockdowns the round records of a play-by-play hold for one side
\* (field "kd_a" or "kd_b"); a stoppage record holds none.
RECURSIVE SumKd(_, _)
SumKd(pbp, side) ==
  IF pbp = <<>> THEN 0
  ELSE LET rec == pbp[Len(pbp)]
           kd  == IF "kd_a" \notin DOMAIN rec THEN 0
                  ELSE IF side = "a" THEN rec.kd_a ELSE rec.kd_b
       IN  kd + SumKd(SubSeq(pbp, 1, Len(pbp) - 1), side)

\* The call is inside a round, or returned from inside one: its per-round
\* counters are those of a round not yet recorded.
RoundOpen(s) ==
  \/ s.pc \in {"exchange", "kd_check", "ko_check"}
  \/ s.pc = "done" /\ s.ret.result.type \in {"TKO", "KO"}

\* The knockdowns suffered by each fighter are the knockdowns the opponent
\* scored over all rounds so far.
KdTotalsAgree(s) ==
  /\ s.kd_total_b = SumKd(s.pbp, "a") + (IF RoundOpen(s) THEN s.kd_a ELSE 0)
  /\ s.kd_total_a = SumKd(s.pbp, "b") + (IF RoundOpen(s) THEN s.kd_b ELSE 0)

\* C27 (Spec): a knockdown check that succeeds raises the scorer's per-round
\* count and the defender's knockdowns-suffered total by exactly 1, appends
\* exactly one note and adds at least 2.0 to the defender's damage, also when
\* the stoppage test that follows ends the bout; one that fails changes none
\* of them; and in every state each fighter's knockdowns suffered equal the
\* sum over all rounds so far of the knockdowns scored by the opponent.
KnockdownBookkeeping ==
  [][ \A c \in DOMAIN calls :
        LET s == calls[c]
            t == calls'[c]
            Same == /\ t.kd_a = s.kd_a /\ t.kd_b = s.kd_b
                    /\ t.kd_total_a = s.kd_total_a /\ t.kd_total_b = s.kd_total_b
                    /\ t.notes = s.notes
                    /\ t.damage_a = s.damage_a /\ t.damage_b = s.damage_b
            ByA  == /\ t.kd_a = s.kd_a + 1 /\ t.kd_total_b = s.kd_total_b + 1
                    /\ t.kd_b = s.kd_b /\ t.kd_total_a = s.kd_total_a
                    /\ Len(t.notes) = Len(s.notes) + 1
                    /\ SubSeq(t.notes, 1, Len(s.notes)) = s.notes
                    /\ t.damage_b >= s.damage_b + 2000 /\ t.damage_a = s.damage_a
            ByB  == /\ t.kd_b = s.kd_b + 1 /\ t.kd_total_a = s.kd_total_a + 1
                    /\ t.kd_a = s.kd_a /\ t.kd_total_b = s.kd_total_b
                    /\ Len(t.notes) = Len(s.notes) + 1
                    /\ SubSeq(t.notes, 1, Len(s.notes)) = s.notes
                    /\ t.damage_a >= s.damage_a + 2000 /\ t.damage_b = s.damage_b
        IN  /\ KdTotalsAgree(s) /\ KdTotalsAgree(t)
            /\ s.pc = "kd_check" =>
                  \/ Same
                  \/ s.attacker = "a" /\ ByA
                  \/ s.attacker = "b" /\ ByB
            /\ (s.pc # "kd_check" /\ s.pc # "round") =>
                  /\ t.kd_a = s.kd_a /\ t.kd_b = s.kd_b
                  /\ t.kd_total_a = s.kd_total_a /\ t.kd_total_b = s.kd_total_b ]_vars

\* A bout in its second round with a knockdown recorded in the first round
\* and another scored in the second.
KnockdownBookkeepingWitness ==
  \E c \in DOMAIN calls :
    /\ calls[c].rnd = 2 /\ calls[c].pc = "ko_check"
    /\ calls[c].pbp[1].kd_a + calls[c].pbp[1].kd_b >= 1
    /\ calls[c].kd_a + calls[c].kd_b >= 1
    /\ calls[c].kd_total_a + calls[c].kd_total_b >= 2

\* C28 (Spec): an exchange that lands raises the damage of the defender only;
\* when the knockdown check or the knockout check that follows ends the bout
\* (a TKO after a knockdown, or a KO), the winner is the fighter who attacked
\* in that exchange and the loser is the defender, in both branches.
StoppageWinnerIsAttacker ==
  [][ \A c \in DOMAIN calls :
        LET s == calls[c]
            t == calls'[c]
        IN  /\ (s.pc = "exchange" /\ t.pc = "kd_check") =>
                  \/ /\ t.attacker = "a"
                     /\ t.damage_b > s.damage_b /\ t.damage_a = s.damage_a
                  \/ /\ t.attacker = "b"
                     /\ t.damage_a > s.damage_a /\ t.damage_b = s.damage_b
            /\ (s.pc \in {"kd_check", "ko_check"} /\ t.pc = "done") =>
                  /\ t.ret.result.type = (IF s.pc = "kd_check" THEN "TKO" ELSE "KO")
                  /\ s.attacker = "a" =>
                        (t.ret.winner = Ident(s.a) /\ t.ret.loser = Ident(s.b))
                  /\ s.attacker = "b" =>
                        (t.ret.winner = Ident(s.b) /\ t.ret.loser = Ident(s.a))
                  /\ s.attacker \in {"a", "b"} ]_vars

\* A stoppage in the B-attacks branch between two different fighters: the
\* second fighter attacked and won, the first lost.
StoppageWinnerIsAttackerWitness ==
  \E c \in DOMAIN calls :
    /\ Returned(c) /\ Kind(c) \in {"TKO", "KO"}
    /\ Ident(calls[c].a) # Ident(calls[c].b)
    /\ calls[c].attacker = "b"
    /\ calls[c].notes[Len(calls[c].notes)] \in
         {NoteKnockdown(calls[c].b), NoteKnockout(calls[c].b)}
    /\ calls[c].ret.winner = Ident(calls[c].b)
    /\ calls[c].ret.loser = Ident(calls[c].a)
====
